---------------------------- MODULE Spec2Model ----------------------------
(***************************************************************************)
(* Model of streamlit_app.py: the two-train single-track schedule planner  *)
(* (build_schedule) and its clock helpers (hhmm_to_minutes,                *)
(* minutes_to_hhmm, travel_time_minutes).                                  *)
(*                                                                         *)
(* Numbers.  Python numbers are modelled as exact rationals <<n, d>> in    *)
(* lowest terms with d > 0 (an int k is <<k, 1>>).  Every property below   *)
(* compares values the code itself computed (max, <=, -), so it does not   *)
(* depend on the binary rounding of a float.                               *)
(* Strings are sequences of one-character strings.                         *)
(***************************************************************************)
EXTENDS Integers, Sequences, FiniteSets, TLC

VARIABLES
    session,      \* module-level names the script assigns (lines 130-148)
    invocation,   \* the function call made last: [fn, args, ret]
    history       \* ghost: the logged invocations, each with the globals it ran under

vars == <<session, invocation, history>>

-----------------------------------------------------------------------------
(* Rational arithmetic                                                     *)

Abs(i) == IF i < 0 THEN -i ELSE i

RECURSIVE GCD(_, _)
GCD(a, b) == IF b = 0 THEN a ELSE GCD(b, a % b)

\* the rational n/d (d # 0) in lowest terms with a positive denominator
Rat(n, d) ==
    LET g == GCD(Abs(n), Abs(d))
        s == IF d < 0 THEN -1 ELSE 1
    IN  <<(s * n) \div g, (s * d) \div g>>

R(k) == <<k, 1>>

RAdd(x, y) == Rat(x[1] * y[2] + y[1] * x[2], x[2] * y[2])
RSub(x, y) == Rat(x[1] * y[2] - y[1] * x[2], x[2] * y[2])
RMul(x, y) == Rat(x[1] * y[1], x[2] * y[2])
RDiv(x, y) == Rat(x[1] * y[2], x[2] * y[1])
RLe(x, y)  == x[1] * y[2] <= y[1] * x[2]
RLt(x, y)  == x[1] * y[2] < y[1] * x[2]

\* Python max(a, b): the first argument unless the second is greater
py_max(a, b) == IF RLt(a, b) THEN b ELSE a

-----------------------------------------------------------------------------
(* Clock helpers: strings, int(), round(), the two conversions             *)

Digits == <<"0", "1", "2", "3", "4", "5", "6", "7", "8", "9">>

IsDigit(c) == \E i \in 1..Len(Digits) : Digits[i] = c

DigitValue(c) == (CHOOSE i \in 1..Len(Digits) : Digits[i] = c) - 1

\* str.split(sep) for a one-character separator: always count(sep) + 1 parts
RECURSIVE str_split(_, _)
str_split(s, sep) ==
    IF \A i \in 1..Len(s) : s[i] # sep
    THEN <<s>>
    ELSE LET k == CHOOSE i \in 1..Len(s) :
                      s[i] = sep /\ \A j \in 1..(i - 1) : s[j] # sep
         IN  <<SubSeq(s, 1, k - 1)>> \o str_split(SubSeq(s, k + 1, Len(s)), sep)

RECURSIVE lstrip(_)
lstrip(s) == IF s # <<>> /\ Head(s) = " " THEN lstrip(Tail(s)) ELSE s

RECURSIVE rstrip(_)
rstrip(s) ==
    IF s # <<>> /\ s[Len(s)] = " " THEN rstrip(SubSeq(s, 1, Len(s) - 1)) ELSE s

\* the digits of an int literal, left to right: "_" only between two digits
RECURSIVE scan_digits(_, _, _)
scan_digits(body, acc, after_digit) ==
    IF body = <<>>
    THEN [ok |-> after_digit, val |-> acc]
    ELSE IF IsDigit(Head(body))
         THEN scan_digits(Tail(body), 10 * acc + DigitValue(Head(body)), TRUE)
         ELSE IF Head(body) = "_" /\ after_digit
              THEN scan_digits(Tail(body), acc, FALSE)
              ELSE [ok |-> FALSE, val |-> 0]

\* int(s) in base 10: surrounding blanks stripped, an optional sign, digits;
\* ok = FALSE stands for ValueError (invalid literal)
py_int(s) ==
    LET t    == rstrip(lstrip(s))
        neg  == t # <<>> /\ Head(t) = "-"
        body == IF t # <<>> /\ Head(t) \in {"+", "-"} THEN Tail(t) ELSE t
        d    == scan_digits(body, 0, FALSE)
    IN  [ok |-> d.ok, val |-> IF neg THEN -d.val ELSE d.val]

Return(v) == [exc |-> "none", val |-> v]
Raise(e, msg) == [exc |-> e, val |-> msg]

\* "h, m = parts[0], parts[1]" style: parts after the second are ignored
hhmm_to_minutes_first_two(t_str) ==
    LET parts == str_split(t_str, ":")
    IN  IF ~py_int(parts[1]).ok
        THEN Raise("ValueError", "invalid literal for int()")
        ELSE IF Len(parts) < 2
        THEN Raise("ValueError", "not enough values to unpack")
        ELSE IF ~py_int(parts[2]).ok
        THEN Raise("ValueError", "invalid literal for int()")
        ELSE Return(py_int(parts[1]).val * 60 + py_int(parts[2]).val)

\* minutes and hours exchanged
hhmm_to_minutes_swapped(t_str) ==
    LET parts == str_split(t_str, ":")
    IN  IF ~py_int(parts[1]).ok
        THEN Raise("ValueError", "invalid literal for int()")
        ELSE IF Len(parts) < 2
        THEN Raise("ValueError", "not enough values to unpack")
        ELSE IF ~py_int(parts[2]).ok
        THEN Raise("ValueError", "invalid literal for int()")
        ELSE IF Len(parts) > 2
        THEN IF ~py_int(parts[3]).ok
             THEN Raise("ValueError", "invalid literal for int()")
             ELSE Raise("ValueError", "too many values to unpack")
        ELSE Return(py_int(parts[1]).val + 60 * py_int(parts[2]).val)

\* lines 12-15.  The unpacking "h, m = map(int, ...)" pulls the lazy map item
\* by item: int() of part 1, of part 2, then one more pull to see that the
\* iterator is exhausted (which runs int() on a third part, if there is one).
hhmm_to_minutes(t_str) ==
    LET parts == str_split(t_str, ":")
    IN  IF ~py_int(parts[1]).ok
        THEN Raise("ValueError", "invalid literal for int()")
        ELSE IF Len(parts) < 2
        THEN Raise("ValueError", "not enough values to unpack")
        ELSE IF ~py_int(parts[2]).ok
        THEN Raise("ValueError", "invalid literal for int()")
        ELSE IF Len(parts) > 2
        THEN IF ~py_int(parts[3]).ok
             THEN Raise("ValueError", "invalid literal for int()")
             ELSE Raise("ValueError", "too many values to unpack")
        ELSE Return(py_int(parts[1]).val * 60 + py_int(parts[2]).val)

\* round(x) of a number: the nearest integer, a tie going to the even one
py_round(x) ==
    LET f    == x[1] \div x[2]
        rem2 == 2 * (x[1] - f * x[2])
    IN  IF rem2 < x[2] THEN f
        ELSE IF rem2 > x[2] THEN f + 1
        ELSE IF f % 2 = 0 THEN f ELSE f + 1

\* int(x): truncation toward zero
py_trunc(x) == IF x[1] >= 0 THEN x[1] \div x[2] ELSE -((-x[1]) \div x[2])

RECURSIVE decimal(_)
decimal(n) ==
    IF n < 10 THEN <<Digits[n + 1]>> ELSE decimal(n \div 10) \o <<Digits[(n % 10) + 1]>>

\* format spec 02d: sign, then zero padding up to a total width of 2
format_02d(n) ==
    LET sign == IF n < 0 THEN <<"-">> ELSE <<>>
        ds   == decimal(Abs(n))
    IN  IF Len(sign) + Len(ds) < 2 THEN sign \o <<"0">> \o ds ELSE sign \o ds

\* the fraction cut off instead of rounded
minutes_to_hhmm_truncating(m) ==
    LET m1 == py_trunc(m)
        h  == (m1 \div 60) % 24
        mm == m1 % 60
    IN  format_02d(h) \o <<":">> \o format_02d(mm)

\* hours not wrapped at 24
minutes_to_hhmm_no_wrap(m) ==
    LET m1 == py_round(m)
        h  == m1 \div 60
        mm == m1 % 60
    IN  format_02d(h) \o <<":">> \o format_02d(mm)

\* lines 17-21 (// is floor division, % takes the sign of the divisor)
minutes_to_hhmm(m) ==
    LET m1 == py_round(m)
        h  == (m1 \div 60) % 24
        mm == m1 % 60
    IN  format_02d(h) \o <<":">> \o format_02d(mm)

-----------------------------------------------------------------------------
(* build_schedule and its helper                                           *)

travel_time_wrong_unit(distance_km, speed_kmph) == RDiv(distance_km, speed_kmph)

travel_time_minutes(distance_km, speed_kmph) ==
    RDiv(RMul(R(60), distance_km), speed_kmph)

\* the plan labels (the source writes an en dash where the model writes "-")
NameA == "Option A - Hold Freight; Express first"
NameB == "Option B - Delay Express; Freight first"

\* Option A without the headway term in the hold
plan_A_no_headway(t_exp_run, t_fre_run, dep_exp_planned, dep_freight_planned, headway_min, w_exp, w_freight) ==
    LET dep_exp_A   == dep_exp_planned
        arr_exp_A   == RAdd(dep_exp_A, t_exp_run)
        dep_fre_A   == py_max(dep_freight_planned, arr_exp_A)
        arr_fre_A   == RAdd(dep_fre_A, t_fre_run)
        delay_exp_A == py_max(R(0), RSub(dep_exp_A, dep_exp_planned))
        delay_fre_A == py_max(R(0), RSub(dep_fre_A, dep_freight_planned))
        score_A     == RAdd(RMul(w_exp, delay_exp_A), RMul(w_freight, delay_fre_A))
    IN  [name |-> NameA,
         dep_exp |-> dep_exp_A, arr_exp |-> arr_exp_A,
         dep_fre |-> dep_fre_A, arr_fre |-> arr_fre_A,
         delay_exp |-> delay_exp_A, delay_fre |-> delay_fre_A,
         score |-> score_A]

\* Option A with the express re-timed to the base of the day (leader disturbed)
plan_A_leader_moved(t_exp_run, t_fre_run, dep_exp_planned, dep_freight_planned, headway_min, w_exp, w_freight) ==
    LET dep_exp_A   == py_max(dep_exp_planned, dep_freight_planned)
        arr_exp_A   == RAdd(dep_exp_A, t_exp_run)
        dep_fre_A   == py_max(dep_freight_planned, RAdd(arr_exp_A, headway_min))
        arr_fre_A   == RAdd(dep_fre_A, t_fre_run)
        delay_exp_A == py_max(R(0), RSub(dep_exp_A, dep_exp_planned))
        delay_fre_A == py_max(R(0), RSub(dep_fre_A, dep_freight_planned))
        score_A     == RAdd(RMul(w_exp, delay_exp_A), RMul(w_freight, delay_fre_A))
    IN  [name |-> NameA,
         dep_exp |-> dep_exp_A, arr_exp |-> arr_exp_A,
         dep_fre |-> dep_fre_A, arr_fre |-> arr_fre_A,
         delay_exp |-> delay_exp_A, delay_fre |-> delay_fre_A,
         score |-> score_A]

\* lines 36-52: Option A, hold Freight (Express first)
plan_A(t_exp_run, t_fre_run, dep_exp_planned, dep_freight_planned, headway_min, w_exp, w_freight) ==
    LET dep_exp_A   == dep_exp_planned
        arr_exp_A   == RAdd(dep_exp_A, t_exp_run)
        dep_fre_A   == py_max(dep_freight_planned, RAdd(arr_exp_A, headway_min))
        arr_fre_A   == RAdd(dep_fre_A, t_fre_run)
        delay_exp_A == py_max(R(0), RSub(dep_exp_A, dep_exp_planned))
        delay_fre_A == py_max(R(0), RSub(dep_fre_A, dep_freight_planned))
        score_A     == RAdd(RMul(w_exp, delay_exp_A), RMul(w_freight, delay_fre_A))
    IN  [name |-> NameA,
         dep_exp |-> dep_exp_A, arr_exp |-> arr_exp_A,
         dep_fre |-> dep_fre_A, arr_fre |-> arr_fre_A,
         delay_exp |-> delay_exp_A, delay_fre |-> delay_fre_A,
         score |-> score_A]

\* Option B with the express always released at freight arrival + headway
plan_B_always_held(t_exp_run, t_fre_run, dep_exp_planned, dep_freight_planned, headway_min, w_exp, w_freight) ==
    LET dep_fre_B   == dep_freight_planned
        arr_fre_B   == RAdd(dep_fre_B, t_fre_run)
        dep_exp_B   == RAdd(arr_fre_B, headway_min)
        arr_exp_B   == RAdd(dep_exp_B, t_exp_run)
        delay_exp_B == py_max(R(0), RSub(dep_exp_B, dep_exp_planned))
        delay_fre_B == py_max(R(0), RSub(dep_fre_B, dep_freight_planned))
        score_B     == RAdd(RMul(w_exp, delay_exp_B), RMul(w_freight, delay_fre_B))
    IN  [name |-> NameB,
         dep_exp |-> dep_exp_B, arr_exp |-> arr_exp_B,
         dep_fre |-> dep_fre_B, arr_fre |-> arr_fre_B,
         delay_exp |-> delay_exp_B, delay_fre |-> delay_fre_B,
         score |-> score_B]

\* Option B with the delay subtraction reversed and unclamped
plan_B_delay_reversed(t_exp_run, t_fre_run, dep_exp_planned, dep_freight_planned, headway_min, w_exp, w_freight) ==
    LET dep_fre_B   == dep_freight_planned
        arr_fre_B   == RAdd(dep_fre_B, t_fre_run)
        dep_exp_B   == py_max(dep_exp_planned, RAdd(arr_fre_B, headway_min))
        arr_exp_B   == RAdd(dep_exp_B, t_exp_run)
        delay_exp_B == RSub(dep_exp_planned, dep_exp_B)
        delay_fre_B == RSub(dep_freight_planned, dep_fre_B)
        score_B     == RAdd(RMul(w_exp, delay_exp_B), RMul(w_freight, delay_fre_B))
    IN  [name |-> NameB,
         dep_exp |-> dep_exp_B, arr_exp |-> arr_exp_B,
         dep_fre |-> dep_fre_B, arr_fre |-> arr_fre_B,
         delay_exp |-> delay_exp_B, delay_fre |-> delay_fre_B,
         score |-> score_B]

\* lines 54-70: Option B, delay Express (Freight first)
plan_B(t_exp_run, t_fre_run, dep_exp_planned, dep_freight_planned, headway_min, w_exp, w_freight) ==
    LET dep_fre_B   == dep_freight_planned
        arr_fre_B   == RAdd(dep_fre_B, t_fre_run)
        dep_exp_B   == py_max(dep_exp_planned, RAdd(arr_fre_B, headway_min))
        arr_exp_B   == RAdd(dep_exp_B, t_exp_run)
        delay_exp_B == py_max(R(0), RSub(dep_exp_B, dep_exp_planned))
        delay_fre_B == py_max(R(0), RSub(dep_fre_B, dep_freight_planned))
        score_B     == RAdd(RMul(w_exp, delay_exp_B), RMul(w_freight, delay_fre_B))
    IN  [name |-> NameB,
         dep_exp |-> dep_exp_B, arr_exp |-> arr_exp_B,
         dep_fre |-> dep_fre_B, arr_fre |-> arr_fre_B,
         delay_exp |-> delay_exp_B, delay_fre |-> delay_fre_B,
         score |-> score_B]

\* selection with a strict comparison (a tie goes to plan B)
select_best_strict(A, B) == IF RLt(A.score, B.score) THEN A ELSE B

\* line 72: best = plan_A if plan_A["score"] <= plan_B["score"] else plan_B
select_best(A, B) == IF RLe(A.score, B.score) THEN A ELSE B

\* build_schedule whose body reads the module-level headway_min and
\* distance_km instead of its own parameters
build_schedule_reads_globals(distance_km, v_exp, v_freight, dep_exp_planned, dep_freight_planned, headway_min, w_exp, w_freight) ==
    LET t_exp_run == travel_time_minutes(session.distance_km, v_exp)
        t_fre_run == travel_time_minutes(session.distance_km, v_freight)
        A == plan_A(t_exp_run, t_fre_run, dep_exp_planned, dep_freight_planned,
                    session.headway_min, w_exp, w_freight)
        B == plan_B(t_exp_run, t_fre_run, dep_exp_planned, dep_freight_planned,
                    session.headway_min, w_exp, w_freight)
    IN  [best |-> select_best(A, B), plan_A |-> A, plan_B |-> B,
         t |-> <<t_exp_run, t_fre_run>>]

\* lines 26-73
build_schedule(distance_km, v_exp, v_freight, dep_exp_planned, dep_freight_planned, headway_min, w_exp, w_freight) ==
    LET t_exp_run == travel_time_minutes(distance_km, v_exp)
        t_fre_run == travel_time_minutes(distance_km, v_freight)
        A == plan_A(t_exp_run, t_fre_run, dep_exp_planned, dep_freight_planned,
                    headway_min, w_exp, w_freight)
        B == plan_B(t_exp_run, t_fre_run, dep_exp_planned, dep_freight_planned,
                    headway_min, w_exp, w_freight)
    IN  [best |-> select_best(A, B), plan_A |-> A, plan_B |-> B,
         t |-> <<t_exp_run, t_fre_run>>]

-----------------------------------------------------------------------------
(* Bounds and input sets                                                   *)

MaxCalls     == 3      \* logged invocations in SpecCalls
MaxStrLen    == 5      \* length of the strings handed to hhmm_to_minutes
MaxMinute    == 1500   \* minute values go up to MaxMinute (past one day)
MaxBelowZero == 130    \* ... and down to -MaxBelowZero

Distances     == {R(1), R(40)}
ExpressSpeeds == {R(40), R(110)}
FreightSpeeds == {R(20), R(40)}
Departures    == {R(0), R(600), R(622), R(663), Rat(1201, 2)}
Headways      == {R(0), Rat(1, 2), R(3)}
Weights       == {R(1), R(3)}

ScheduleInputs ==
    [distance_km : Distances, v_exp : ExpressSpeeds, v_freight : FreightSpeeds,
     dep_exp_planned : Departures, dep_freight_planned : Departures,
     headway_min : Headways, w_exp : Weights, w_freight : Weights]

\* minute values in steps of a quarter, so that x.25, x.5 and x.75 all occur
MinuteValues == {Rat(q, 4) : q \in (-4 * MaxBelowZero)..(4 * MaxMinute)}

Alphabet == {"0", "7", ":", "-", "+", " ", "_", "x"}

ClockStrings == UNION {[1..n -> Alphabet] : n \in 0..MaxStrLen}

\* the sidebar's widget values (lines 130-146); the defaults are the
\* values the widgets are created with
Defaults ==
    [base_min     |-> 600,
     distance_km  |-> R(40),
     headway_min  |-> R(3),
     v_exp        |-> R(110),
     v_fre        |-> R(40),
     dep_exp_str  |-> <<"1", "0", ":", "2", "2">>,
     dep_fre_str  |-> <<"1", "0", ":", "0", "0">>,
     w_exp        |-> R(3),
     w_fre        |-> R(1)]

Sessions ==
    {Defaults,
     [Defaults EXCEPT !.headway_min = R(1)],
     [Defaults EXCEPT !.dep_fre_str = <<"1", "0", ":", "x">>]}

\* the arguments of the direct calls in SpecCalls
CallInputs ==
    [distance_km : {R(40)}, v_exp : {R(110)}, v_freight : {R(40)},
     dep_exp_planned : {R(622)}, dep_freight_planned : {R(600), R(663)},
     headway_min : {R(0), R(3)}, w_exp : {R(3)}, w_freight : {R(1)}]

-----------------------------------------------------------------------------
(* State machine                                                           *)

Pending == [exc |-> "pending", val |-> <<>>]

NoCall == [fn |-> "none", args |-> <<>>, ret |-> Pending]

\* the script has run once with the widget defaults; nothing was called yet
Init ==
    /\ session = Defaults
    /\ invocation = NoCall
    /\ history = <<>>

ScheduleResult(a) ==
    Return(build_schedule(a.distance_km, a.v_exp, a.v_freight, a.dep_exp_planned,
                          a.dep_freight_planned, a.headway_min, a.w_exp, a.w_freight))

ScheduleCall(a) == [fn |-> "build_schedule", args |-> a, ret |-> ScheduleResult(a)]

ParseCall(s) == [fn |-> "hhmm_to_minutes", args |-> [t_str |-> s], ret |-> hhmm_to_minutes(s)]

FormatCall(x) ==
    [fn |-> "minutes_to_hhmm", args |-> [m |-> x], ret |-> Return(minutes_to_hhmm(x))]

\* lines 152-160 with the names the sidebar assigned: the two planned
\* departures are parsed (an exception ends the script run there), then
\* build_schedule is called
RunCall ==
    LET e == ParseCall(session.dep_exp_str)
        f == ParseCall(session.dep_fre_str)
    IN  IF e.ret.exc # "none" THEN e
        ELSE IF f.ret.exc # "none" THEN f
        ELSE ScheduleCall([distance_km |-> session.distance_km,
                           v_exp |-> session.v_exp,
                           v_freight |-> session.v_fre,
                           dep_exp_planned |-> R(e.ret.val),
                           dep_freight_planned |-> R(f.ret.val),
                           headway_min |-> session.headway_min,
                           w_exp |-> session.w_exp,
                           w_freight |-> session.w_fre])

\* --- build_schedule: the arguments are drawn at the start, then it runs ---

InitSchedule ==
    /\ session = Defaults
    /\ invocation \in {NoCall} \cup
           {[fn |-> "build_schedule", args |-> a, ret |-> Pending] : a \in ScheduleInputs}
    /\ history = <<>>

\* a direct call of build_schedule with the drawn arguments
Invoke ==
    /\ invocation.fn = "build_schedule"
    /\ invocation.ret.exc = "pending"
    /\ invocation' = ScheduleCall(invocation.args)
    /\ UNCHANGED <<session, history>>

\* the "Compute Best Plan" button: the script runs with run = True
ClickRun ==
    /\ invocation = NoCall
    /\ invocation' = RunCall
    /\ UNCHANGED <<session, history>>

Next ==
    \/ Invoke
    \/ ClickRun

Spec == InitSchedule /\ [][Next]_vars

\* --- the clock helpers: the argument is drawn at the start ---

InitClock ==
    /\ session = Defaults
    /\ invocation \in
           {[fn |-> "minutes_to_hhmm", args |-> [m |-> x], ret |-> Pending] : x \in MinuteValues}
           \cup
           {[fn |-> "hhmm_to_minutes", args |-> [t_str |-> s], ret |-> Pending] : s \in ClockStrings}
    /\ history = <<>>

Format ==
    /\ invocation.fn = "minutes_to_hhmm"
    /\ invocation.ret.exc = "pending"
    /\ invocation' = FormatCall(invocation.args.m)
    /\ UNCHANGED <<session, history>>

Parse ==
    /\ invocation.fn = "hhmm_to_minutes"
    /\ invocation.ret.exc = "pending"
    /\ invocation' = ParseCall(invocation.args.t_str)
    /\ UNCHANGED <<session, history>>

\* the string minutes_to_hhmm just returned is parsed back
ParseFormatted ==
    /\ invocation.fn = "minutes_to_hhmm"
    /\ invocation.ret.exc = "none"
    /\ invocation' = ParseCall(invocation.ret.val)
    /\ history' = <<[call |-> invocation, globals |-> session]>>
    /\ UNCHANGED session

NextClock ==
    \/ Format
    \/ Parse
    \/ ParseFormatted

SpecClock == InitClock /\ [][NextClock]_vars

\* --- a session of script runs, every call logged with the globals it ran under ---

Logged ==
    /\ Len(history) < MaxCalls
    /\ history' = Append(history, [call |-> invocation', globals |-> session])

\* a widget is edited: the script runs with run = False and rebinds the names
EditInputs(w) ==
    /\ w # session
    /\ session' = w
    /\ UNCHANGED <<invocation, history>>

LoggedInvoke(a) ==
    /\ invocation' = ScheduleCall(a)
    /\ Logged
    /\ UNCHANGED session

LoggedClickRun ==
    /\ invocation' = RunCall
    /\ Logged
    /\ UNCHANGED session

NextCalls ==
    \/ \E w \in Sessions : EditInputs(w)
    \/ \E a \in CallInputs : LoggedInvoke(a)
    \/ LoggedClickRun

SpecCalls == Init /\ [][NextCalls]_vars

-----------------------------------------------------------------------------
(* Properties of build_schedule (specification Spec)                       *)

ScheduleDone == invocation.fn = "build_schedule" /\ invocation.ret.exc = "none"

\* C1: with distance > 0, speeds > 0 and headway >= 0 (0 included), both
\* plans respect the headway, non-strictly: in plan A
\* dep_fre >= arr_exp + headway_min, in plan B dep_exp >= arr_fre + headway_min.
C1_HeadwayRespected ==
    ScheduleDone =>
        LET a == invocation.args
            A == invocation.ret.val.plan_A
            B == invocation.ret.val.plan_B
        IN  (/\ RLt(R(0), a.distance_km) /\ RLt(R(0), a.v_exp)
             /\ RLt(R(0), a.v_freight) /\ RLe(R(0), a.headway_min))
            => /\ RLe(RAdd(A.arr_exp, a.headway_min), A.dep_fre)
               /\ RLe(RAdd(B.arr_fre, a.headway_min), B.dep_exp)

\* headway 0, and in both plans the held train leaves at the very minute the
\* leading one arrives
C1_Witness ==
    /\ ScheduleDone
    /\ invocation.args.headway_min = R(0)
    /\ invocation.ret.val.plan_A.dep_fre = invocation.ret.val.plan_A.arr_exp
    /\ invocation.ret.val.plan_B.dep_exp = invocation.ret.val.plan_B.arr_fre

\* C2: best is plan A whenever score_A <= score_B, plan B only when score_B
\* is strictly lower; a tie selects plan A; best is one of the two plans.
C2_SelectorCorrect ==
    ScheduleDone =>
        LET r == invocation.ret.val
        IN  /\ r.best \in {r.plan_A, r.plan_B}
            /\ RLe(r.plan_A.score, r.plan_B.score) => r.best = r.plan_A
            /\ r.best = r.plan_B => RLt(r.plan_B.score, r.plan_A.score)
            /\ r.plan_A.score = r.plan_B.score => r.best.name = NameA

\* an exact tie with a positive score
C2_Witness ==
    /\ ScheduleDone
    /\ invocation.ret.val.plan_A.score = invocation.ret.val.plan_B.score
    /\ RLt(R(0), invocation.ret.val.plan_A.score)
    /\ invocation.ret.val.best = invocation.ret.val.plan_A

\* x is the larger of a and b
IsMax(x, a, b) == x \in {a, b} /\ RLe(a, x) /\ RLe(b, x)

\* C3: the held train departs at exactly max(its planned departure, leading
\* arrival + headway): already at or after that bound it leaves as planned
\* with delay 0, otherwise its delay is leading arrival + headway - planned.
C3_HeldTrainDeparture ==
    ScheduleDone =>
        LET a  == invocation.args
            A  == invocation.ret.val.plan_A
            B  == invocation.ret.val.plan_B
            cA == RAdd(A.arr_exp, a.headway_min)
            cB == RAdd(B.arr_fre, a.headway_min)
        IN  /\ IsMax(A.dep_fre, a.dep_freight_planned, cA)
            /\ IsMax(B.dep_exp, a.dep_exp_planned, cB)
            /\ RLe(cA, a.dep_freight_planned) =>
                   A.dep_fre = a.dep_freight_planned /\ A.delay_fre = R(0)
            /\ RLe(cB, a.dep_exp_planned) =>
                   B.dep_exp = a.dep_exp_planned /\ B.delay_exp = R(0)
            /\ RLt(a.dep_freight_planned, cA) =>
                   A.delay_fre = RSub(cA, a.dep_freight_planned)
            /\ RLt(a.dep_exp_planned, cB) =>
                   B.delay_exp = RSub(cB, a.dep_exp_planned)

\* zero headway, the express planned strictly after the freight has cleared
\* (plan B adds no delay), while plan A does hold the freight
C3_Witness ==
    /\ ScheduleDone
    /\ invocation.args.headway_min = R(0)
    /\ RLt(invocation.ret.val.plan_B.arr_fre, invocation.args.dep_exp_planned)
    /\ invocation.ret.val.plan_B.delay_exp = R(0)
    /\ RLt(R(0), invocation.ret.val.plan_A.delay_fre)

\* C4: the leading train is undisturbed: plan A has dep_exp = planned and
\* delay_exp = 0, plan B has dep_fre = planned and delay_fre = 0; score_A is
\* the weighted freight delay alone and score_B the weighted express delay.
C4_LeaderUndisturbed ==
    ScheduleDone =>
        LET a == invocation.args
            A == invocation.ret.val.plan_A
            B == invocation.ret.val.plan_B
        IN  /\ A.dep_exp = a.dep_exp_planned
            /\ A.delay_exp = R(0)
            /\ B.dep_fre = a.dep_freight_planned
            /\ B.delay_fre = R(0)
            /\ A.score = RMul(a.w_freight, A.delay_fre)
            /\ B.score = RMul(a.w_exp, B.delay_exp)

\* the freight is planned after the express and each plan delays its
\* trailing train
C4_Witness ==
    /\ ScheduleDone
    /\ RLt(invocation.args.dep_exp_planned, invocation.args.dep_freight_planned)
    /\ RLt(R(0), invocation.ret.val.plan_A.delay_fre)
    /\ RLt(R(0), invocation.ret.val.plan_B.delay_exp)

Scenario1 ==
    [distance_km |-> R(40), v_exp |-> R(110), v_freight |-> R(40),
     dep_exp_planned |-> R(622), dep_freight_planned |-> R(600),
     headway_min |-> R(3), w_exp |-> R(3), w_freight |-> R(1)]

\* x, to two decimals, is hundredths / 100
About(x, hundredths) == 2 * Abs(100 * x[1] - hundredths * x[2]) <= x[2]

\* C5: distance 40, speeds 110 and 40, headway 3, departures 622 and 600,
\* weights (3, 1): plan A has dep_exp = 622, dep_fre = arr_exp + 3 (about
\* 646.82), delay_fre and score about 46.82; plan B has dep_fre = 600,
\* arr_fre = 660, dep_exp = 663, delay_exp = 41, score = 123; plan A wins.
C5_Scenario1 ==
    (ScheduleDone /\ invocation.args = Scenario1) =>
        LET A == invocation.ret.val.plan_A
            B == invocation.ret.val.plan_B
        IN  /\ A.dep_exp = R(622)
            /\ A.dep_fre = RAdd(A.arr_exp, R(3))
            /\ About(A.arr_exp, 64382)
            /\ About(A.dep_fre, 64682)
            /\ About(A.arr_fre, 70682)
            /\ About(A.delay_fre, 4682)
            /\ About(A.score, 4682)
            /\ B.dep_fre = R(600)
            /\ B.arr_fre = R(660)
            /\ B.dep_exp = R(663)
            /\ B.delay_exp = R(41)
            /\ B.score = R(123)
            /\ invocation.ret.val.best = A

\* the scenario has run (it is also what the button computes from the
\* widget defaults)
C5_Witness == ScheduleDone /\ invocation.args = Scenario1

\* C9: in both plans and for both trains the delay is never negative and is
\* max(0, actual departure - planned departure); with positive weights the
\* score of each plan is never negative.
C9_DelayNonNegative ==
    ScheduleDone =>
        LET a == invocation.args
        IN  \A P \in {invocation.ret.val.plan_A, invocation.ret.val.plan_B} :
                /\ RLe(R(0), P.delay_exp)
                /\ RLe(R(0), P.delay_fre)
                /\ IsMax(P.delay_exp, R(0), RSub(P.dep_exp, a.dep_exp_planned))
                /\ IsMax(P.delay_fre, R(0), RSub(P.dep_fre, a.dep_freight_planned))
                /\ (RLt(R(0), a.w_exp) /\ RLt(R(0), a.w_freight)) => RLe(R(0), P.score)

\* plan B delays the express while plan A delays nobody
C9_Witness ==
    /\ ScheduleDone
    /\ RLt(R(0), invocation.ret.val.plan_B.delay_exp)
    /\ invocation.ret.val.plan_A.delay_fre = R(0)
    /\ invocation.ret.val.plan_A.score = R(0)

-----------------------------------------------------------------------------
(* Properties of the clock helpers (specification SpecClock)               *)

\* C6: for every integer minute m in [0, 1439],
\* hhmm_to_minutes(minutes_to_hhmm(m)) = m.
C6_RoundTrip ==
    (/\ invocation.fn = "hhmm_to_minutes"
     /\ history # <<>>
     /\ history[1].call.args.m[2] = 1
     /\ history[1].call.args.m[1] \in 0..1439)
    => /\ invocation.args.t_str = history[1].call.ret.val
       /\ invocation.ret.exc = "none"
       /\ invocation.ret.val = history[1].call.args.m[1]

\* 1439 was formatted ("23:59") and parsed back
C6_Witness ==
    /\ invocation.fn = "hhmm_to_minutes"
    /\ history # <<>>
    /\ history[1].call.args.m = R(1439)
    /\ invocation.args.t_str = <<"2", "3", ":", "5", "9">>
    /\ invocation.ret.exc = "none"

\* the two decimal digits of k, for k in 0..99
TwoDigits(k) == <<Digits[(k \div 10) + 1], Digits[(k % 10) + 1]>>

\* r is an integer nearest to x: |x - r| <= 1/2
Nearest(r, x) == 2 * Abs(x[1] - r * x[2]) <= x[2]

\* C7: minutes_to_hhmm rounds a fractional minute value to the nearest
\* integer r (it does not cut the fraction off) and then wraps the hours
\* modulo 24: for every x (x >= 1440, x < 0 and x ending in one half
\* included) the result is the two-digit hour (r div 60) mod 24, a colon and
\* the two-digit minute r mod 60.  (When x ends in one half both neighbours
\* are nearest; round() then takes the even one, which the formula pins.)
C7_FormatRounds ==
    (invocation.fn = "minutes_to_hhmm" /\ invocation.ret.exc = "none") =>
        LET x == invocation.args.m
            f == x[1] \div x[2]
        IN  \E r \in {f, f + 1} :
                /\ Nearest(r, x)
                /\ (Nearest(f, x) /\ Nearest(f + 1, x)) => r % 2 = 0
                /\ ((r \div 60) % 24) \in 0..23
                /\ (r % 60) \in 0..59
                /\ invocation.ret.val =
                       TwoDigits((r \div 60) % 24) \o <<":">> \o TwoDigits(r % 60)

\* a negative value ending in one half: -1.5 is shown as 23:58
C7_Witness ==
    /\ invocation.fn = "minutes_to_hhmm"
    /\ invocation.args.m = Rat(-3, 2)
    /\ invocation.ret.exc = "none"
    /\ invocation.ret.val = <<"2", "3", ":", "5", "8">>

ColonCount(s) == Cardinality({i \in 1..Len(s) : s[i] = ":"})

\* p is the text of an integer: blanks around, an optional sign, decimal
\* digits with single underscores allowed between digits
IsIntegerText(p) ==
    \E i, j \in 1..Len(p) :
        /\ i <= j
        /\ \A k \in 1..Len(p) : (k < i \/ k > j) => p[k] = " "
        /\ LET b == IF p[i] \in {"+", "-"} THEN i + 1 ELSE i
           IN  /\ b <= j
               /\ IsDigit(p[b])
               /\ IsDigit(p[j])
               /\ \A k \in b..j : IsDigit(p[k]) \/ p[k] = "_"
               /\ \A k \in b..(j - 1) : ~(p[k] = "_" /\ p[k + 1] = "_")

RECURSIVE DigitsValue(_)
DigitsValue(ds) ==
    IF ds = <<>> THEN 0
    ELSE 10 * DigitsValue(SubSeq(ds, 1, Len(ds) - 1)) + DigitValue(ds[Len(ds)])

\* the integer an integer text denotes
IntegerOf(p) ==
    LET v == DigitsValue(SelectSeq(p, IsDigit))
    IN  IF \E k \in 1..Len(p) : p[k] = "-" THEN -v ELSE v

\* C8: hhmm_to_minutes fails with a format error (ValueError), returning no
\* value, for every string that does not split on ":" into exactly two parts
\* or has a part that is not a valid integer; for a string of two valid
\* integers h and m it returns h * 60 + m.
C8_ParseErrors ==
    (/\ invocation.fn = "hhmm_to_minutes"
     /\ invocation.ret.exc # "pending")
    => LET s == invocation.args.t_str
           k == CHOOSE i \in 1..Len(s) : s[i] = ":"
           h == SubSeq(s, 1, k - 1)
           m == SubSeq(s, k + 1, Len(s))
       IN  IF ColonCount(s) = 1 /\ IsIntegerText(h) /\ IsIntegerText(m)
           THEN /\ invocation.ret.exc = "none"
                /\ invocation.ret.val = IntegerOf(h) * 60 + IntegerOf(m)
           ELSE invocation.ret.exc = "ValueError"

\* a string of three valid integers is rejected for its part count
C8_Witness ==
    /\ invocation.fn = "hhmm_to_minutes"
    /\ ColonCount(invocation.args.t_str) = 2
    /\ \A i \in 1..3 : IsIntegerText(str_split(invocation.args.t_str, ":")[i])
    /\ invocation.ret.exc = "ValueError"

-----------------------------------------------------------------------------
(* Determinism of build_schedule across a session (specification SpecCalls) *)

\* C10: two invocations of build_schedule with identical arguments return
\* identical plans, selection and travel times, whatever was called and
\* whatever the module-level names were rebound to in between.
C10_Deterministic ==
    \A i, j \in 1..Len(history) :
        (/\ history[i].call.fn = "build_schedule"
         /\ history[j].call.fn = "build_schedule"
         /\ history[i].call.args = history[j].call.args)
        => history[i].call.ret = history[j].call.ret

\* the same arguments twice, a call with other arguments in between, and the
\* module-level headway_min rebound between the two
C10_Witness ==
    /\ Len(history) >= 3
    /\ \A i \in 1..3 : history[i].call.fn = "build_schedule"
    /\ history[1].call.args = history[3].call.args
    /\ history[2].call.args # history[1].call.args
    /\ history[1].globals.headway_min # history[3].globals.headway_min
    /\ history[1].call.args.headway_min # history[3].globals.headway_min

=============================================================================
